---- MODULE Spec2Model ----
(***************************************************************************)
(* The offline caching worker of the wedding website (src/js/modern/sw.js) *)
(* as a state machine: the Cache Storage of the origin, the worker's       *)
(* lifecycle, and one task per intercepted fetch event, suspended at each  *)
(* await of its caching strategy.                                          *)
(***************************************************************************)
EXTENDS Integers, Sequences, FiniteSets

\* The number of fetch events a behaviour dispatches to the worker.
MaxTasks == 2

\* The number of partitions that exist before the worker is installed.
MaxLeftBehind == 2

\* The number of sync events a behaviour delivers to the worker.
MaxSyncs == 5

\* The number of times the guest submits the RSVP form.
MaxSubmits == 2

\* The number of push events a behaviour delivers to the worker.
MaxPushes == 3

\* The number of pages of the site open at once.
MaxPages == 2

\* The number of analytics beacons a behaviour sends.
MaxSent == 3

Tasks == 1..MaxTasks

(***************************************************************************)
(* Configuration of the worker (sw.js lines 8-21).                         *)
(***************************************************************************)
\* line 8: declared, and used by no listener.
CACHE_NAME == "wedding-website-v1"

STATIC_CACHE == "static-v1"

DYNAMIC_CACHE == "dynamic-v1"

STATIC_FILES ==
    << "/", "/index.html", "/css/styles.min.css", "/js/modern-scripts.js",
       "/img/logo.png", "/img/hero-placeholder.jpg", "/manifest.json" >>

\* The marker tested by the fetch listener (line 55).
API_MARKER == "/api/"

\* The URL cacheFirst looks up when an image cannot be fetched (line 99).
PLACEHOLDER == "/img/placeholder.jpg"

\* The origin the worker is served from: relative URLs resolve against it.
Origin == "https://w"

Resolve(path) == Origin \o path

\* String.prototype.includes: m occurs in s as a contiguous substring.
Includes(s, m) ==
    \E i \in 1..(Len(s) - Len(m) + 1) : SubSeq(s, i, i + Len(m) - 1) = m

ManifestUrls == { Resolve(STATIC_FILES[k]) : k \in DOMAIN STATIC_FILES }

(***************************************************************************)
(* Responses.  A response the network returns is tagged with the task      *)
(* whose fetch obtained it (0: the install's addAll), so that two fetches  *)
(* of one URL yield distinguishable responses.                             *)
(***************************************************************************)
NetResponse(u, i) == [status |-> 200, url |-> u, origin |-> "network", by |-> i]

\* new Response('Offline', { status: 503 })  (line 78)
Offline == [status |-> 503, url |-> "", origin |-> "synthetic", by |-> 0]

\* undefined: what a match that finds nothing resolves with.
Absent == [status |-> 0, url |-> "", origin |-> "undefined", by |-> 0]

\* An entry left in a partition by an earlier version of the worker.
OldResponse(u) == [status |-> 200, url |-> u, origin |-> "old", by |-> 0]

(***************************************************************************)
(* Cache Storage: the partitions in creation order, each a name and a      *)
(* store from URL to response.                                             *)
(***************************************************************************)
EmptyStore == [u \in {} |-> Absent]

StorePut(store, u, r) ==
    [x \in (DOMAIN store) \cup {u} |-> IF x = u THEN r ELSE store[x]]

HasCache(cs, name) == \E k \in DOMAIN cs : cs[k].name = name

\* caches.open(name): the partition is created when it does not exist.
CachesOpen(cs, name) ==
    IF HasCache(cs, name) THEN cs
    ELSE Append(cs, [name |-> name, store |-> EmptyStore])

\* cache.match(u) on the partition called name.
CacheMatch(cs, name, u) ==
    IF \E k \in DOMAIN cs : cs[k].name = name /\ u \in DOMAIN cs[k].store
    THEN LET k == CHOOSE j \in DOMAIN cs : cs[j].name = name
         IN  cs[k].store[u]
    ELSE Absent

\* caches.match(u): the first partition, in creation order, that holds u.
CachesMatch(cs, u) ==
    LET holders == { k \in DOMAIN cs : u \in DOMAIN cs[k].store }
    IN  IF holders = {} THEN Absent
        ELSE LET k == CHOOSE j \in holders : \A h \in holders : j <= h
             IN  cs[k].store[u]

\* Mutant: a put keeps the entry the partition already holds.
CachePut_KeepsFirst(cs, name, u, r) ==
    [k \in DOMAIN cs |->
        IF cs[k].name = name /\ u \notin DOMAIN cs[k].store
        THEN [cs[k] EXCEPT !.store = StorePut(cs[k].store, u, r)]
        ELSE cs[k]]

\* cache.put(u, r) on the partition called name, committed as a whole.
CachePut(cs, name, u, r) ==
    [k \in DOMAIN cs |->
        IF cs[k].name = name
        THEN [cs[k] EXCEPT !.store = StorePut(cs[k].store, u, r)]
        ELSE cs[k]]

\* The partitions other than the two of the running version.
Orphans(cs) ==
    SelectSeq(cs, LAMBDA c : c.name # STATIC_CACHE /\ c.name # DYNAMIC_CACHE)

(***************************************************************************)
(* Request descriptors the page raises: method, absolute URL, destination. *)
(***************************************************************************)
Req(m, path, d) == [method |-> m, url |-> Resolve(path), destination |-> d]

Requests ==
    { Req("GET", "/api/data", ""),
      Req("GET", "/api/avatar.png", "image"),
      Req("GET", "/img/logo.png", "image"),
      Req("GET", "/img/a.png", "image"),
      Req("GET", "/img/placeholder.jpg", "image"),
      Req("GET", "/img/logo.png", ""),
      Req("GET", "/", "document"),
      Req("GET", "/rsvp?next=/api/", "document"),
      Req("POST", "/api/rsvp", "") }

NoReq == [method |-> "", url |-> "", destination |-> ""]

NoPut == [state |-> "none", name |-> "", key |-> "", resp |-> Absent]

IdleTask ==
    [ req |-> NoReq, class |-> "", calls |-> << >>, pc |-> "idle",
      cached |-> Absent, dynAt |-> Absent, staAt |-> Absent,
      orphanAt |-> Absent, namesAt |-> << >>, net |-> Absent, fetches |-> 0,
      outcome |-> "none", result |-> Absent, put |-> NoPut ]

\* Partitions an earlier version of the worker may have left behind.
LeftBehind ==
    { << >>,
      << [ name  |-> "static-v0",
           store |-> [ u \in { Resolve("/img/logo.png"), Resolve("/api/data") }
                         |-> OldResponse(u) ] ] >> }

\* The work the lifecycle listeners have handed to event.waitUntil: the
\* state of the install's addAll, the number of activate events delivered,
\* the state of the activate listener's promise chain, and the partitions
\* whose caches.delete the current activate issued, still awaits, and saw
\* fail, with the partitions deleted so far.
NoWork ==
    [ addAll |-> "none", runs |-> 0, chain |-> "idle",
      issued |-> {}, todo |-> {}, failed |-> {}, deleted |-> {} ]

(***************************************************************************)
(* The pending submission and the task of the sync listener (lines         *)
(* 121-142).                                                               *)
(***************************************************************************)
\* line 122: the tag the sync listener answers to.
SYNC_TAG == "rsvp-sync"

\* The tags under which the page may have registered a sync.
SyncTags == { SYNC_TAG, "gallery-sync" }

\* The form data of a submission, as the page collects it.
Rsvps ==
    { [name |-> "Ann", attending |-> "yes"],
      [name |-> "Bob", attending |-> "no"] }

\* null: no submission is stored.
NoRsvp == [name |-> "", attending |-> ""]

\* JSON.stringify(rsvpData) (line 134).
JsonStringify(r) ==
    "{\"name\":\"" \o r.name \o "\",\"attending\":\"" \o r.attending \o "\"}"

\* The task of one sync event: where it is suspended, what it read, the
\* POSTs it made and how the last one ended, and what was stored when the
\* event arrived.
IdleSync ==
    [ tag |-> "", pc |-> "idle", before |-> NoRsvp, data |-> NoRsvp,
      posts |-> 0, body |-> "", reply |-> "none", cleared |-> FALSE,
      logged |-> FALSE, outcome |-> "none" ]

\* The RSVP form of the page (modern-scripts.js, RSVPForm): whether a
\* submission is being sent, its data, how the POST ended, and the message
\* shown to the guest.
IdlePage ==
    [ pc |-> "idle", data |-> NoRsvp, reply |-> "none", message |-> "none",
      submits |-> 0 ]

\* localStorage.getItem of a key that was never set.
Null == "null"

\* The items of localStorage that the consent code reads and writes.
NoItems == [cookie_consent |-> Null, analytics_consent |-> Null]

Pages == 1..MaxPages

ClosedPage == [loaded |-> FALSE, banner |-> FALSE, monitors |-> 0]

VARIABLES
    worker,       \* lifecycle state of this version of the worker
    skipWaiting,  \* self.skipWaiting() has been called
    claimed,      \* self.clients.claim() has been called
    caches,       \* Cache Storage: partitions in creation order
    tasks,        \* one record per fetch event
    unhandled,    \* tasks one of whose promises rejected with no handler
    work,         \* pending work of the install and activate listeners
    pending,      \* the stored submission awaiting delivery, or NoRsvp
    sync,         \* the task of the latest sync event
    received,     \* bodies the submission endpoint has accepted, in order
    fired,        \* number of sync events delivered
    page,         \* the RSVP form of the page
    notifications,\* the notifications shown, in order
    windows,      \* URLs of the windows opened by the worker, in order
    localStorage, \* the consent items of the origin's localStorage
    pages,        \* the open pages: loaded, banner shown, monitors created
    sent,         \* endpoints analytics data was sent to, in order
    hostname      \* window.location.hostname

\* The state of the handlers that run beside fetch and lifecycle.
vars_push == << notifications, windows >>

vars_analytics == << localStorage, pages, sent, hostname >>

background ==
    << pending, sync, received, fired, page, vars_push, vars_analytics >>

vars ==
    << worker, skipWaiting, claimed, caches, tasks, unhandled, work, background >>

\* The state of the fetch and lifecycle handlers.
vars_worker ==
    << worker, skipWaiting, claimed, caches, tasks, unhandled, work >>

\* No page is open and the visitor has made no choice.
AnalyticsIdle ==
    /\ localStorage = NoItems
    /\ pages = [p \in Pages |-> ClosedPage]
    /\ sent = << >>
    /\ hostname = "w"

\* No notification has been shown and no window opened.
PushIdle ==
    /\ notifications = << >>
    /\ windows = << >>

\* No sync event has been delivered and no submission is stored.
BackgroundIdle ==
    /\ pending = NoRsvp
    /\ sync = IdleSync
    /\ received = << >>
    /\ fired = 0
    /\ page = IdlePage
    /\ PushIdle
    /\ AnalyticsIdle

Init ==
    /\ worker = "parsed"
    /\ skipWaiting = FALSE
    /\ claimed = FALSE
    /\ caches \in LeftBehind
    /\ tasks = [i \in Tasks |-> IdleTask]
    /\ unhandled = {}
    /\ work = NoWork
    /\ BackgroundIdle

(***************************************************************************)
(* Lifecycle (lines 24-45).                                                *)
(***************************************************************************)
\* event.waitUntil(promise) (lines 25, 34): the worker stays in the state
\* "during" until the promise settles.
WaitUntil(during, after) == during

\* cache.addAll(STATIC_FILES): every asset fetched, then all stored at once.
AddAll(cs, name) ==
    [k \in DOMAIN cs |->
        IF cs[k].name = name
        THEN [cs[k] EXCEPT !.store =
                [u \in (DOMAIN cs[k].store) \cup ManifestUrls |->
                    IF u \in ManifestUrls THEN NetResponse(u, 0)
                    ELSE cs[k].store[u]]]
        ELSE cs[k]]

\* Mutant: the assets are added one by one (cache.add for each), so the
\* first of them is stored although a later one cannot be fetched.
AddAllRejected_Partial(cs, name) ==
    CachePut(cs, name, Resolve(STATIC_FILES[1]),
             NetResponse(Resolve(STATIC_FILES[1]), 0))

\* cache.addAll when an asset cannot be fetched: it rejects, nothing stored.
AddAllRejected(cs, name) == cs

\* The install listener (lines 24-26): caches.open(STATIC_CACHE), and the
\* chain that continues with addAll is handed to event.waitUntil.
InstallEvent ==
    /\ worker = "parsed"
    /\ worker' = WaitUntil("installing", "installed")
    /\ caches' = CachesOpen(caches, STATIC_CACHE)
    /\ work' = [work EXCEPT !.addAll = "pending"]
    /\ UNCHANGED << skipWaiting, claimed, tasks, unhandled, background >>

\* lines 27-28: addAll settles; skipWaiting() is called when it resolved,
\* and the install fails when it rejected.
InstallSettle ==
    /\ work.addAll = "pending"
    /\ \/ /\ caches' = AddAll(caches, STATIC_CACHE)
          /\ skipWaiting' = TRUE
          /\ worker' = "installed"
          /\ work' = [work EXCEPT !.addAll = "done"]
       \/ /\ caches' = AddAllRejected(caches, STATIC_CACHE)
          /\ skipWaiting' = skipWaiting
          /\ worker' = "redundant"
          /\ work' = [work EXCEPT !.addAll = "failed"]
    /\ UNCHANGED << claimed, tasks, unhandled, background >>

\* The page registers the worker again after a failed install
\* (modern-scripts.js, navigator.serviceWorker.register).
Register ==
    /\ worker = "redundant"
    /\ worker' = "parsed"
    /\ work' = [work EXCEPT !.addAll = "none"]
    /\ UNCHANGED << skipWaiting, claimed, caches, tasks, unhandled, background >>

\* The names the activate listener deletes (line 39).
Stale(cs) == { Orphans(cs)[k].name : k \in DOMAIN Orphans(cs) }

\* Mutant: a deletion resolves and leaves the partition where it is.
DeleteAll_Nothing(cs, names) == cs

\* caches.delete(name) for every name of names.
DeleteAll(cs, names) ==
    SelectSeq(cs, LAMBDA c : c.name \notin names)

\* Mutant: the map callback returns nothing, so Promise.all does not wait
\* for the deletions.
PromiseAll_Detached(w) == "fulfilled"

\* Promise.all over the deletions (line 37): rejected as soon as one of them
\* has failed, fulfilled when all of them have succeeded.
PromiseAll(w) ==
    IF w.failed # {} THEN "rejected"
    ELSE IF w.todo = {} THEN "fulfilled"
    ELSE "pending"

\* The activate listener (lines 33-41): caches.keys(), then caches.delete
\* for every stale name, the chain being handed to event.waitUntil.
ActivateListener ==
    /\ work' = [work EXCEPT !.runs = @ + 1, !.chain = "running",
                            !.issued = Stale(caches), !.todo = Stale(caches),
                            !.failed = {}]
    /\ worker' = WaitUntil("activating", "activated")
    /\ UNCHANGED << skipWaiting, claimed, caches, tasks, unhandled, background >>

\* The activate event of a worker that installed and called skipWaiting().
ActivateEvent ==
    /\ worker = "installed"
    /\ skipWaiting
    /\ ActivateListener

\* One caches.delete(name) settles: the partition is removed, or the
\* deletion fails and the partition stays.
DeleteSettle(name) ==
    /\ name \in work.todo
    /\ \/ /\ caches' = DeleteAll(caches, {name})
          /\ work' = [work EXCEPT !.todo = @ \ {name},
                                  !.deleted = @ \cup {name}]
       \/ /\ caches' = caches
          /\ work' = [work EXCEPT !.todo = @ \ {name}, !.failed = @ \cup {name}]
    /\ UNCHANGED << worker, skipWaiting, claimed, tasks, unhandled, background >>

\* line 43: Promise.all settles; clients.claim() is called when it
\* resolved and skipped when it rejected, and the activation completes.
ActivateSettle ==
    /\ work.chain = "running"
    /\ PromiseAll(work) # "pending"
    /\ claimed' = (claimed \/ PromiseAll(work) = "fulfilled")
    /\ worker' = "activated"
    /\ work' = [work EXCEPT !.chain = "settled"]
    /\ UNCHANGED << skipWaiting, caches, tasks, unhandled, background >>

(***************************************************************************)
(* The fetch listener (lines 48-65).                                       *)
(***************************************************************************)
\* Mutant: the method test of line 52 is missing.
Intercepted_AnyMethod(req) == TRUE

\* line 52: non-GET requests are skipped.
Intercepted(req) == req.method = "GET"

\* lines 55, 58, 61: the branch conditions.
Classify(req) ==
    IF Includes(req.url, API_MARKER) THEN "API"
    ELSE IF req.destination = "image" THEN "IMAGE"
    ELSE "OTHER"

\* Mutant: the first "else" is missing, so an API request also reaches the
\* branches of the second "if".
Dispatch_MissingElse(class) ==
    (IF class = "API" THEN << "networkFirst" >> ELSE << >>)
        \o (IF class = "IMAGE" THEN << "cacheFirst" >>
            ELSE << "staleWhileRevalidate" >>)

\* lines 57, 60, 63: the strategies handed to event.respondWith.
Dispatch(class) ==
    IF class = "API" THEN << "networkFirst" >>
    ELSE IF class = "IMAGE" THEN << "cacheFirst" >>
    ELSE << "staleWhileRevalidate" >>

\* Where a strategy is suspended after its synchronous start.
FirstAwait(strategy) ==
    IF strategy = "networkFirst" THEN "nf_fetch"
    ELSE IF strategy = "cacheFirst" THEN "cf_match"
    ELSE "swr_open"

FetchListener(t, req) ==
    IF Intercepted(req)
    THEN LET calls == Dispatch(Classify(req))
         IN  [t EXCEPT !.req = req,
                       !.class = Classify(req),
                       !.calls = calls,
                       !.pc = FirstAwait(calls[1]),
                       !.fetches = IF calls[1] = "networkFirst" THEN 1 ELSE 0,
                       !.outcome = "pending"]
    ELSE [t EXCEPT !.req = req, !.pc = "done", !.outcome = "default"]

NextIdle(i) ==
    /\ tasks[i].pc = "idle"
    /\ \A j \in Tasks : j < i => tasks[j].pc # "idle"

FetchEvent(i, req) ==
    /\ worker = "activated"
    /\ NextIdle(i)
    /\ tasks' = [tasks EXCEPT ![i] = FetchListener(tasks[i], req)]
    /\ UNCHANGED << worker, skipWaiting, claimed, caches, unhandled, work, background >>

(***************************************************************************)
(* Steps shared by the strategies.                                         *)
(***************************************************************************)
\* What each kind of partition holds for u when a task looks u up, and the
\* partitions that exist then, in creation order.
Snapshot(t, cs, u) ==
    [t EXCEPT !.dynAt = CacheMatch(cs, DYNAMIC_CACHE, u),
              !.staAt = CacheMatch(cs, STATIC_CACHE, u),
              !.orphanAt = CachesMatch(Orphans(cs), u),
              !.namesAt = [k \in DOMAIN cs |-> cs[k].name]]

\* Mutant: the response is stored under the URL of the placeholder image.
StartPut_WrongKey(u, r) ==
    [state |-> "pending", name |-> DYNAMIC_CACHE, key |-> Resolve(PLACEHOLDER),
     resp |-> r]

\* Mutant: the strategies write to the partition of the pre-cached assets.
StartPut_Static(u, r) ==
    [state |-> "pending", name |-> STATIC_CACHE, key |-> u, resp |-> r]

\* cache.put(request, networkResponse.clone()), not awaited (lines 74, 94, 113).
StartPut(u, r) ==
    [state |-> "pending", name |-> DYNAMIC_CACHE, key |-> u, resp |-> r]

Fulfil(t, r) == [t EXCEPT !.pc = "done", !.outcome = "fulfilled", !.result = r]

Reject(t) == [t EXCEPT !.pc = "done", !.outcome = "rejected"]

Step(i, t) == tasks' = [tasks EXCEPT ![i] = t]

\* A pending put commits its entry as a whole.
PutCommit(i) ==
    /\ tasks[i].put.state = "pending"
    /\ caches' = CachePut(caches, tasks[i].put.name, tasks[i].put.key,
                          tasks[i].put.resp)
    /\ Step(i, [tasks[i] EXCEPT !.put.state = "stored"])
    /\ UNCHANGED << worker, skipWaiting, claimed, unhandled, work, background >>

\* A pending put fails: its promise rejects and nothing listens to it.
PutFail(i) ==
    /\ tasks[i].put.state = "pending"
    /\ Step(i, [tasks[i] EXCEPT !.put.state = "failed"])
    /\ unhandled' = unhandled \cup {i}
    /\ UNCHANGED << worker, skipWaiting, claimed, caches, work, background >>

(***************************************************************************)
(* networkFirst (lines 70-80).                                             *)
(***************************************************************************)
\* Mutant: the catch block answers 'Offline' without consulting the cache.
networkFirstFallback_NoCache(cached) == Offline

\* Mutant: the catch block returns the lookup's result as it is.
networkFirstFallback_NoSynthetic(cached) == cached

\* line 78: cachedResponse || new Response('Offline', { status: 503 })
networkFirstFallback(cached) == IF cached # Absent THEN cached ELSE Offline

\* line 72: await fetch(request)
NfFetch(i) ==
    /\ tasks[i].pc = "nf_fetch"
    /\ \/ Step(i, [tasks[i] EXCEPT !.net = NetResponse(tasks[i].req.url, i),
                                   !.pc = "nf_open"])
       \/ Step(i, [tasks[i] EXCEPT !.pc = "nf_match"])
    /\ UNCHANGED << worker, skipWaiting, claimed, caches, unhandled, work, background >>

\* lines 73-75: await caches.open, then put and return; a failed open is
\* caught by the catch of line 76.
NfOpen(i) ==
    /\ tasks[i].pc = "nf_open"
    /\ \/ /\ caches' = CachesOpen(caches, DYNAMIC_CACHE)
          /\ Step(i, Fulfil([tasks[i] EXCEPT
                                !.put = StartPut(tasks[i].req.url, tasks[i].net)],
                            tasks[i].net))
       \/ /\ caches' = caches
          /\ Step(i, [tasks[i] EXCEPT !.pc = "nf_match"])
    /\ UNCHANGED << worker, skipWaiting, claimed, unhandled, work, background >>

\* lines 77-78: await caches.match(request), then the fallback.
NfMatch(i) ==
    /\ tasks[i].pc = "nf_match"
    /\ LET found == CachesMatch(caches, tasks[i].req.url)
           t == Snapshot([tasks[i] EXCEPT !.cached = found], caches,
                         tasks[i].req.url)
       IN  Step(i, Fulfil(t, networkFirstFallback(found)))
    /\ UNCHANGED << worker, skipWaiting, claimed, caches, unhandled, work, background >>

(***************************************************************************)
(* cacheFirst (lines 85-103).                                              *)
(***************************************************************************)
\* Mutant: the cached response is never taken.
cacheFirstHit_Never(cached) == FALSE

\* line 87: if (cachedResponse)
cacheFirstHit(cached) == cached # Absent

\* lines 96-102: the catch block.
cacheFirstCatch(t) ==
    IF t.req.destination = "image"
    THEN [t EXCEPT !.pc = "cf_placeholder"]
    ELSE Reject(t)

\* lines 86-89: await caches.match(request)
CfMatch(i) ==
    /\ tasks[i].pc = "cf_match"
    /\ LET found == CachesMatch(caches, tasks[i].req.url)
           t == Snapshot([tasks[i] EXCEPT !.cached = found], caches,
                         tasks[i].req.url)
       IN  IF cacheFirstHit(found)
           THEN Step(i, Fulfil(t, found))
           ELSE Step(i, [t EXCEPT !.pc = "cf_fetch", !.fetches = @ + 1])
    /\ UNCHANGED << worker, skipWaiting, claimed, caches, unhandled, work, background >>

\* line 92: await fetch(request)
CfFetch(i) ==
    /\ tasks[i].pc = "cf_fetch"
    /\ \/ Step(i, [tasks[i] EXCEPT !.net = NetResponse(tasks[i].req.url, i),
                                   !.pc = "cf_open"])
       \/ Step(i, cacheFirstCatch(tasks[i]))
    /\ UNCHANGED << worker, skipWaiting, claimed, caches, unhandled, work, background >>

\* lines 93-95: await caches.open, then put and return.
CfOpen(i) ==
    /\ tasks[i].pc = "cf_open"
    /\ \/ /\ caches' = CachesOpen(caches, DYNAMIC_CACHE)
          /\ Step(i, Fulfil([tasks[i] EXCEPT
                                !.put = StartPut(tasks[i].req.url, tasks[i].net)],
                            tasks[i].net))
       \/ /\ caches' = caches
          /\ Step(i, cacheFirstCatch(tasks[i]))
    /\ UNCHANGED << worker, skipWaiting, claimed, unhandled, work, background >>

\* line 99: return caches.match('/img/placeholder.jpg')
CfPlaceholder(i) ==
    /\ tasks[i].pc = "cf_placeholder"
    /\ Step(i, Fulfil(tasks[i], CachesMatch(caches, Resolve(PLACEHOLDER))))
    /\ UNCHANGED << worker, skipWaiting, claimed, caches, unhandled, work, background >>

(***************************************************************************)
(* staleWhileRevalidate (lines 108-118).                                   *)
(***************************************************************************)
\* Mutant: the strategy returns fetchPromise whatever the cache held.
staleWhileRevalidateReturn_AwaitsFetch(t, cached) == t

\* Mutant: the strategy returns cachedResponse alone, undefined on a miss.
staleWhileRevalidateReturn_CachedOnly(t, cached) ==
    [t EXCEPT !.outcome = "fulfilled", !.result = cached]

\* line 117: return cachedResponse || fetchPromise
staleWhileRevalidateReturn(t, cached) ==
    IF cached # Absent
    THEN [t EXCEPT !.outcome = "fulfilled", !.result = cached]
    ELSE t

\* line 109: await caches.open(DYNAMIC_CACHE)
SwrOpen(i) ==
    /\ tasks[i].pc = "swr_open"
    /\ \/ /\ caches' = CachesOpen(caches, DYNAMIC_CACHE)
          /\ Step(i, [tasks[i] EXCEPT !.pc = "swr_match"])
       \/ /\ caches' = caches
          /\ Step(i, Reject(tasks[i]))
    /\ UNCHANGED << worker, skipWaiting, claimed, unhandled, work, background >>

\* Mutant: the fetch is started only when the lookup found nothing, and a
\* cached answer ends the call.
SwrMatch_FetchOnMiss(i) ==
    /\ tasks[i].pc = "swr_match"
    /\ LET found == CacheMatch(caches, DYNAMIC_CACHE, tasks[i].req.url)
           t == Snapshot([tasks[i] EXCEPT !.cached = found], caches,
                         tasks[i].req.url)
       IN  IF found # Absent
           THEN Step(i, Fulfil(t, found))
           ELSE Step(i, [t EXCEPT !.pc = "swr_fetch", !.fetches = @ + 1])
    /\ UNCHANGED << worker, skipWaiting, claimed, caches, unhandled, work, background >>

\* Mutant: the lookup is caches.match(request), over every partition.
SwrMatch_AnyPartition(i) ==
    /\ tasks[i].pc = "swr_match"
    /\ LET found == CachesMatch(caches, tasks[i].req.url)
           t == Snapshot([tasks[i] EXCEPT !.cached = found,
                                          !.pc = "swr_fetch",
                                          !.fetches = @ + 1],
                         caches, tasks[i].req.url)
       IN  Step(i, staleWhileRevalidateReturn(t, found))
    /\ UNCHANGED << worker, skipWaiting, claimed, caches, unhandled, work, background >>

\* lines 110-117: await cache.match(request), start the fetch, return.
SwrMatch(i) ==
    /\ tasks[i].pc = "swr_match"
    /\ LET found == CacheMatch(caches, DYNAMIC_CACHE, tasks[i].req.url)
           t == Snapshot([tasks[i] EXCEPT !.cached = found,
                                          !.pc = "swr_fetch",
                                          !.fetches = @ + 1],
                         caches, tasks[i].req.url)
       IN  Step(i, staleWhileRevalidateReturn(t, found))
    /\ UNCHANGED << worker, skipWaiting, claimed, caches, unhandled, work, background >>

\* lines 112-115: the fetch settles; its continuation puts the response.
SwrFetch(i) ==
    /\ tasks[i].pc = "swr_fetch"
    /\ \/ /\ LET r == NetResponse(tasks[i].req.url, i)
                 t == [tasks[i] EXCEPT !.net = r, !.pc = "done",
                                       !.put = StartPut(tasks[i].req.url, r)]
             IN  Step(i, IF t.outcome = "pending" THEN Fulfil(t, r) ELSE t)
          /\ unhandled' = unhandled
       \/ /\ Step(i, IF tasks[i].outcome = "pending" THEN Reject(tasks[i])
                     ELSE [tasks[i] EXCEPT !.pc = "done"])
          /\ unhandled' = IF tasks[i].outcome = "pending" THEN unhandled
                          ELSE unhandled \cup {i}
    /\ UNCHANGED << worker, skipWaiting, claimed, caches, work, background >>

(***************************************************************************)
(* The worker.                                                             *)
(***************************************************************************)
Next ==
    \/ InstallEvent
    \/ InstallSettle
    \/ Register
    \/ ActivateEvent
    \/ \E name \in work.todo : DeleteSettle(name)
    \/ ActivateSettle
    \/ \E i \in Tasks, req \in Requests : FetchEvent(i, req)
    \/ \E i \in Tasks : NfFetch(i)
    \/ \E i \in Tasks : NfOpen(i)
    \/ \E i \in Tasks : NfMatch(i)
    \/ \E i \in Tasks : CfMatch(i)
    \/ \E i \in Tasks : CfFetch(i)
    \/ \E i \in Tasks : CfOpen(i)
    \/ \E i \in Tasks : CfPlaceholder(i)
    \/ \E i \in Tasks : SwrOpen(i)
    \/ \E i \in Tasks : SwrMatch(i)
    \/ \E i \in Tasks : SwrFetch(i)
    \/ \E i \in Tasks : PutCommit(i)
    \/ \E i \in Tasks : PutFail(i)

Spec == Init /\ [][Next]_vars

(***************************************************************************)
(* The lifecycle on its own, over every arrangement of partitions that may *)
(* exist beforehand, with the activate event delivered a second time and   *)
(* the first fetch event dispatched.                                       *)
(***************************************************************************)
\* Names of partitions: the two of this version, the one line 8 declares,
\* and two of an earlier version.
KnownNames ==
    { STATIC_CACHE, DYNAMIC_CACHE, CACHE_NAME, "static-v0", "dynamic-v0" }

OldStore ==
    [ u \in { Resolve("/img/logo.png"), Resolve("/api/data") } |-> OldResponse(u) ]

\* Every sequence of at most n distinct elements of S.
DistinctSeqs(S, n) ==
    UNION { { q \in [1..k -> S] : \A a, b \in 1..k : q[a] = q[b] => a = b }
            : k \in 0..n }

\* The partitions that may exist before the install, in creation order.
Preexisting ==
    { [k \in DOMAIN q |-> [name |-> q[k], store |-> OldStore]]
      : q \in DistinctSeqs(KnownNames, MaxLeftBehind) }

LifecycleInit ==
    /\ worker = "parsed"
    /\ skipWaiting = FALSE
    /\ claimed = FALSE
    /\ caches \in Preexisting
    /\ tasks = [i \in Tasks |-> IdleTask]
    /\ unhandled = {}
    /\ work = NoWork
    /\ BackgroundIdle

\* The activate listener run a second time, the first run being over and
\* no install in between.
ActivateAgain ==
    /\ worker = "activated"
    /\ work.runs = 1
    /\ work.chain = "settled"
    /\ work.todo = {}
    /\ ActivateListener

LifecycleNext ==
    \/ InstallEvent
    \/ InstallSettle
    \/ Register
    \/ ActivateEvent
    \/ \E name \in work.todo : DeleteSettle(name)
    \/ ActivateSettle
    \/ ActivateAgain
    \/ \E req \in Requests : FetchEvent(1, req)

LifecycleSpec == LifecycleInit /\ [][LifecycleNext]_vars

(***************************************************************************)
(* The strategies under cancellation: the host may terminate a task at any *)
(* await, and while its put is being written.                              *)
(***************************************************************************)
\* An entry cut short: part of the body of r.
Truncated(r) == [r EXCEPT !.origin = "partial"]

\* Mutant: the part of the body written so far is left in the partition.
AbortedPut_Partial(cs, put) ==
    CachePut(CachesOpen(cs, put.name), put.name, put.key, Truncated(put.resp))

\* cache.put (lines 74, 94, 113) cut short: nothing of it is committed.
AbortedPut(cs, put) == cs

\* The host terminates task i where it is suspended, or while its put is
\* being written: the task does nothing more.
Abort(i) ==
    /\ tasks[i].pc # "idle"
    /\ tasks[i].pc # "done" \/ tasks[i].put.state = "pending"
    /\ caches' = IF tasks[i].put.state = "pending"
                 THEN AbortedPut(caches, tasks[i].put)
                 ELSE caches
    /\ Step(i, [tasks[i] EXCEPT
                   !.pc = "done",
                   !.outcome = IF @ = "pending" THEN "aborted" ELSE @,
                   !.put.state = IF @ = "pending" THEN "aborted" ELSE @])
    /\ UNCHANGED << worker, skipWaiting, claimed, unhandled, work, background >>

\* The worker installed and activated, no partition having existed before.
WorkerActivated ==
    /\ worker = "activated"
    /\ skipWaiting = TRUE
    /\ claimed = TRUE
    /\ caches = AddAll(CachesOpen(<< >>, STATIC_CACHE), STATIC_CACHE)
    /\ tasks = [i \in Tasks |-> IdleTask]
    /\ unhandled = {}
    /\ work = [NoWork EXCEPT !.addAll = "done", !.runs = 1, !.chain = "settled"]

AbortInit == WorkerActivated /\ BackgroundIdle

AbortNext ==
    \/ \E i \in Tasks, req \in Requests : FetchEvent(i, req)
    \/ \E i \in Tasks : NfFetch(i)
    \/ \E i \in Tasks : NfOpen(i)
    \/ \E i \in Tasks : NfMatch(i)
    \/ \E i \in Tasks : CfMatch(i)
    \/ \E i \in Tasks : CfFetch(i)
    \/ \E i \in Tasks : CfOpen(i)
    \/ \E i \in Tasks : CfPlaceholder(i)
    \/ \E i \in Tasks : SwrOpen(i)
    \/ \E i \in Tasks : SwrMatch(i)
    \/ \E i \in Tasks : SwrFetch(i)
    \/ \E i \in Tasks : PutCommit(i)
    \/ \E i \in Tasks : PutFail(i)
    \/ \E i \in Tasks : Abort(i)

AbortSpec == AbortInit /\ [][AbortNext]_vars

(***************************************************************************)
(* The strategies with one request after another: a fetch event is         *)
(* dispatched when every call before it has returned to its caller, while  *)
(* the puts of those calls may still be pending.                           *)
(***************************************************************************)
\* The promise handed to respondWith has settled, or no strategy was called.
Returned(t) == t.outcome \notin {"none", "pending"}

FetchEventAfter(i, req) ==
    /\ \A j \in Tasks : j < i => Returned(tasks[j])
    /\ FetchEvent(i, req)

SequentialInit == WorkerActivated /\ BackgroundIdle

SequentialNext ==
    \/ \E i \in Tasks, req \in Requests : FetchEventAfter(i, req)
    \/ \E i \in Tasks : NfFetch(i)
    \/ \E i \in Tasks : NfOpen(i)
    \/ \E i \in Tasks : NfMatch(i)
    \/ \E i \in Tasks : CfMatch(i)
    \/ \E i \in Tasks : CfFetch(i)
    \/ \E i \in Tasks : CfOpen(i)
    \/ \E i \in Tasks : CfPlaceholder(i)
    \/ \E i \in Tasks : SwrOpen(i)
    \/ \E i \in Tasks : SwrMatch(i)
    \/ \E i \in Tasks : SwrFetch(i)
    \/ \E i \in Tasks : PutCommit(i)
    \/ \E i \in Tasks : PutFail(i)

SequentialSpec == SequentialInit /\ [][SequentialNext]_vars

(***************************************************************************)
(* Background sync (lines 121-142).  getStoredRSVP and clearStoredRSVP are *)
(* called by syncRSVP and defined nowhere in the sources: they are the     *)
(* read and the deletion of the single stored submission.                  *)
(***************************************************************************)
\* The stored submission, or null when there is none.
getStoredRSVP(store) == store

\* The stored submission is deleted.
clearStoredRSVP(store) == NoRsvp

\* line 122: only SYNC_TAG starts syncRSVP.
SyncListener(tag, store) ==
    IF tag = SYNC_TAG
    THEN [IdleSync EXCEPT !.tag = tag, !.before = store, !.pc = "get",
                          !.outcome = "pending"]
    ELSE [IdleSync EXCEPT !.tag = tag, !.before = store, !.pc = "done",
                          !.outcome = "ignored"]

\* A sync event arrives, the task of the previous one being over.
SyncEvent(tag) ==
    /\ worker = "activated"
    /\ sync.pc \in {"idle", "done"}
    /\ fired < MaxSyncs
    /\ fired' = fired + 1
    /\ sync' = SyncListener(tag, pending)
    /\ UNCHANGED << vars_worker, vars_push, vars_analytics, pending, received, page >>

\* Mutant: the test of line 130 is missing.
syncGuard_Always(data) == TRUE

\* line 130: if (rsvpData)
syncGuard(data) == data # NoRsvp

\* lines 129-132: await getStoredRSVP(), then the POST is started when a
\* submission was read.
SyncGet ==
    /\ sync.pc = "get"
    /\ LET data == getStoredRSVP(pending)
       IN  sync' = IF syncGuard(data)
                   THEN [sync EXCEPT !.data = data, !.pc = "post",
                                     !.posts = @ + 1,
                                     !.body = JsonStringify(data)]
                   ELSE [sync EXCEPT !.data = data, !.pc = "done",
                                     !.outcome = "fulfilled"]
    /\ UNCHANGED << vars_worker, vars_push, vars_analytics, pending, received, fired, page >>

\* lines 132-140: the POST settles.  It resolves with whatever status the
\* endpoint answers ("ok": accepted; "error": refused, as with a 500), and
\* then clearStoredRSVP is next; it rejects when the network fails, and the
\* catch logs it.
SyncPost ==
    /\ sync.pc = "post"
    /\ \/ /\ received' = Append(received, sync.body)
          /\ sync' = [sync EXCEPT !.reply = "ok", !.pc = "clear"]
       \/ /\ received' = received
          /\ sync' = [sync EXCEPT !.reply = "error", !.pc = "clear"]
       \/ /\ received' = received
          /\ sync' = [sync EXCEPT !.reply = "failed", !.logged = TRUE,
                                  !.pc = "done", !.outcome = "fulfilled"]
    /\ UNCHANGED << vars_worker, vars_push, vars_analytics, pending, fired, page >>

\* line 137: await clearStoredRSVP()
SyncClear ==
    /\ sync.pc = "clear"
    /\ pending' = clearStoredRSVP(pending)
    /\ sync' = [sync EXCEPT !.cleared = TRUE, !.pc = "done",
                            !.outcome = "fulfilled"]
    /\ UNCHANGED << vars_worker, vars_push, vars_analytics, received, fired, page >>

\* RSVPForm.handleSubmit (modern-scripts.js lines 191-206): the form data is
\* read, the button is disabled and the POST to /api/rsvp is started.  The
\* worker's fetch listener leaves a POST to the network (line 52).
HandleSubmit(data) ==
    /\ page.pc = "idle"
    /\ page.submits < MaxSubmits
    /\ page' = [page EXCEPT !.pc = "sending", !.data = data,
                            !.reply = "none", !.message = "none",
                            !.submits = @ + 1]
    /\ UNCHANGED << vars_worker, vars_push, vars_analytics, pending, sync, received, fired >>

\* line 208: if (response.ok)
responseOk(reply) == reply = "ok"

\* lines 208-217: the POST settles.  A response that is ok shows the
\* success message; any other response, and a fetch that rejects because
\* the network is down, shows the error message; the button is enabled.
SubmitSettle ==
    /\ page.pc = "sending"
    /\ \E reply \in {"ok", "error", "failed"} :
          /\ received' = IF reply = "ok"
                         THEN Append(received, JsonStringify(page.data))
                         ELSE received
          /\ page' = [page EXCEPT
                         !.pc = "idle", !.reply = reply,
                         !.message = IF reply # "failed" /\ responseOk(reply)
                                     THEN "success" ELSE "error"]
    /\ UNCHANGED << vars_worker, vars_push, vars_analytics, pending, sync, fired >>

\* An activated worker with the manifest cached; a submission may be stored.
SyncInit ==
    /\ worker = "activated"
    /\ skipWaiting = TRUE
    /\ claimed = TRUE
    /\ caches = AddAll(CachesOpen(<< >>, STATIC_CACHE), STATIC_CACHE)
    /\ tasks = [i \in Tasks |-> IdleTask]
    /\ unhandled = {}
    /\ work = [NoWork EXCEPT !.addAll = "done", !.runs = 1, !.chain = "settled"]
    /\ pending \in Rsvps \cup {NoRsvp}
    /\ sync = IdleSync
    /\ received = << >>
    /\ fired = 0
    /\ page = IdlePage
    /\ PushIdle
    /\ AnalyticsIdle

SyncNext ==
    \/ \E tag \in SyncTags : SyncEvent(tag)
    \/ SyncGet
    \/ SyncPost
    \/ SyncClear
    \/ \E data \in Rsvps : HandleSubmit(data)
    \/ SubmitSettle

SyncSpec == SyncInit /\ [][SyncNext]_vars

(***************************************************************************)
(* Push notifications (lines 145-171).                                     *)
(***************************************************************************)
\* event.data of a push without payload.
NoData == [present |-> FALSE, text |-> ""]

PushData(text) == [present |-> TRUE, text |-> text]

\* The payloads a push may carry.
Payloads == {NoData, PushData(""), PushData("Venue changed")}

\* event.action of a click: the action button clicked, '' for the body.
ClickActions == {"view", "dismiss", ""}

\* lines 146-155: the options handed to showNotification.
Options(data) ==
    [ body |-> IF data.present THEN data.text ELSE "Wedding update available!",
      icon |-> "/img/logo.png",
      badge |-> "/img/badge.png",
      actions |-> << "view", "dismiss" >> ]

\* lines 145-160: the push listener shows one notification.
PushEvent(data) ==
    /\ worker = "activated"
    /\ Len(notifications) < MaxPushes
    /\ notifications' = Append(notifications,
                               [ title |-> "Wedding Update",
                                 options |-> Options(data),
                                 open |-> TRUE,
                                 clicked |-> "unclicked" ])
    /\ UNCHANGED << vars_worker, vars_analytics, pending, sync, received, fired,
                    page, windows >>

\* Mutant: a window is opened unless the click dismissed the notification.
opensWindow_UnlessDismiss(action) == action # "dismiss"

\* line 166: event.action === 'view'
opensWindow(action) == action = "view"

\* lines 163-171: the notificationclick listener, for a click on the open
\* notification n with event.action = action.
NotificationClick(n, action) ==
    /\ worker = "activated"
    /\ n \in DOMAIN notifications
    /\ notifications[n].open
    /\ \/ action = ""
       \/ \E k \in DOMAIN notifications[n].options.actions :
              notifications[n].options.actions[k] = action
    /\ notifications' = [notifications EXCEPT ![n].open = FALSE,
                                              ![n].clicked = action]
    /\ windows' = IF opensWindow(action)
                  THEN Append(windows, Resolve("/"))
                  ELSE windows
    /\ UNCHANGED << vars_worker, vars_analytics, pending, sync, received, fired,
                    page >>

PushInit == WorkerActivated /\ BackgroundIdle

PushNext ==
    \/ \E data \in Payloads : PushEvent(data)
    \/ \E n \in 1..MaxPushes, action \in ClickActions : NotificationClick(n, action)

PushSpec == PushInit /\ [][PushNext]_vars

(***************************************************************************)
(* Analytics and cookie consent of the page (analytics.js lines 8-367).    *)
(***************************************************************************)
\* hasAnalyticsConsent (lines 225-227), and the tests of lines 358 and 364.
hasAnalyticsConsent(storage) == storage.analytics_consent = "true"

\* CookieConsent.hasConsent (lines 260-262).
hasConsent(storage) == storage.cookie_consent = "true"

\* lines 355-367: the page loads (or is loaded anew): a CookieConsent is
\* created, which shows the banner when no choice is stored, and a
\* PerformanceMonitor when the stored analytics consent is 'true'.
PageLoad(p) ==
    /\ pages' = [pages EXCEPT ![p] =
                    [ loaded |-> TRUE,
                      banner |-> ~hasConsent(localStorage),
                      monitors |-> IF hasAnalyticsConsent(localStorage)
                                   THEN 1 ELSE 0 ]]
    /\ UNCHANGED << vars_worker, vars_push, pending, sync, received, fired,
                    page, localStorage, sent, hostname >>

\* lines 340-346: acceptCookies.
acceptCookies(storage) ==
    [storage EXCEPT !.cookie_consent = "true", !.analytics_consent = "true"]

\* lines 348-351: rejectCookies.
rejectCookies(storage) ==
    [storage EXCEPT !.cookie_consent = "true", !.analytics_consent = "false"]

\* lines 329-337: a click on the banner of page p; action is the
\* data-action of the element clicked, "" for an element without one.
BannerClick(p, action) ==
    /\ pages[p].banner
    /\ localStorage' = IF action = "accept" THEN acceptCookies(localStorage)
                       ELSE IF action = "reject" THEN rejectCookies(localStorage)
                       ELSE localStorage
    /\ pages' = [pages EXCEPT ![p].banner = FALSE,
                              ![p].monitors = IF action = "accept" THEN @ + 1
                                              ELSE @]
    /\ UNCHANGED << vars_worker, vars_push, pending, sync, received, fired,
                    page, sent, hostname >>

\* sendAnalytics (lines 202-220): the data goes to /analytics/<endpoint>.
sendAnalytics(endpoint) == Append(sent, endpoint)

\* reportMetric (lines 150-165), called by an observer of a monitor of p.
ReportMetric(p) ==
    /\ pages[p].monitors > 0
    /\ Len(sent) < MaxSent
    /\ sent' = IF hasAnalyticsConsent(localStorage) /\ hostname # "localhost"
               THEN sendAnalytics("metrics")
               ELSE sent
    /\ UNCHANGED << vars_worker, vars_push, pending, sync, received, fired,
                    page, localStorage, pages, hostname >>

\* trackEvent (lines 170-183), called by a listener of a monitor of p.
TrackEvent(p) ==
    /\ pages[p].monitors > 0
    /\ Len(sent) < MaxSent
    /\ sent' = IF hasAnalyticsConsent(localStorage)
               THEN sendAnalytics("events")
               ELSE sent
    /\ UNCHANGED << vars_worker, vars_push, pending, sync, received, fired,
                    page, localStorage, pages, hostname >>

\* trackError (lines 188-197), called by the error listeners of a monitor
\* of p (lines 104-121).
TrackError(p) ==
    /\ pages[p].monitors > 0
    /\ Len(sent) < MaxSent
    /\ sent' = sendAnalytics("errors")
    /\ UNCHANGED << vars_worker, vars_push, pending, sync, received, fired,
                    page, localStorage, pages, hostname >>

\* A browser that has never visited the site, which is served in
\* production or from localhost.
AnalyticsInit ==
    /\ WorkerActivated
    /\ pending = NoRsvp
    /\ sync = IdleSync
    /\ received = << >>
    /\ fired = 0
    /\ page = IdlePage
    /\ PushIdle
    /\ localStorage = NoItems
    /\ pages = [p \in Pages |-> ClosedPage]
    /\ sent = << >>
    /\ hostname \in {"w", "localhost"}

AnalyticsNext ==
    \/ \E p \in Pages : PageLoad(p)
    \/ \E p \in Pages, action \in {"accept", "reject", ""} : BannerClick(p, action)
    \/ \E p \in Pages : ReportMetric(p)
    \/ \E p \in Pages : TrackEvent(p)
    \/ \E p \in Pages : TrackError(p)

AnalyticsSpec == AnalyticsInit /\ [][AnalyticsNext]_vars

(***************************************************************************)
(* Vocabulary of the properties.                                           *)
(***************************************************************************)
Min(S) == CHOOSE x \in S : \A y \in S : x <= y

\* The path component of an absolute URL: from the first "/" after the
\* authority up to, and not including, the query or the fragment.
UrlPath(url) ==
    LET n == Len(url)
        scheme == Min({ i \in 1..(n - 2) : SubSeq(url, i, i + 2) = "://" })
        start == Min({ i \in (scheme + 3)..n : SubSeq(url, i, i) = "/" } \cup {n + 1})
        stop == Min({ i \in start..n : SubSeq(url, i, i) \in {"?", "#"} } \cup {n + 1})
    IN  SubSeq(url, start, stop - 1)

Dispatched(i) == tasks[i].pc # "idle"

Ran(i, strategy) == Dispatched(i) /\ tasks[i].calls = << strategy >>

\* The task has resumed from the cache lookup of its strategy.
LookedUp(i) == tasks[i].namesAt # << >>

\* The steps at which each strategy is suspended.
StepsOf(strategy) ==
    IF strategy = "networkFirst" THEN {"nf_fetch", "nf_open", "nf_match", "done"}
    ELSE IF strategy = "cacheFirst"
         THEN {"cf_match", "cf_fetch", "cf_open", "cf_placeholder", "done"}
    ELSE {"swr_open", "swr_match", "swr_fetch", "done"}

\* What the partition called name held for the task's URL at its lookup.
HeldAt(t, name) ==
    IF name = STATIC_CACHE THEN t.staAt
    ELSE IF name = DYNAMIC_CACHE THEN t.dynAt
    ELSE t.orphanAt

\* The entry, at the task's lookup, of the earliest-created partition that
\* held its URL.
FirstHeld(t) ==
    LET holders == { k \in DOMAIN t.namesAt : HeldAt(t, t.namesAt[k]) # Absent }
    IN  IF holders = {} THEN Absent
        ELSE HeldAt(t, t.namesAt[Min(holders)])

\* The put the task issued targets the dynamic partition, under the task's
\* URL, with the response its fetch obtained.
PutIssued(t) ==
    /\ t.put.state # "none"
    /\ t.put.name = DYNAMIC_CACHE
    /\ t.put.key = t.req.url
    /\ t.put.resp = t.net

(***************************************************************************)
(* Properties of the fetch listener.                                       *)
(***************************************************************************)
\* C1: a fetch event whose method is not GET calls no strategy: the task
\* reads no cache, starts no fetch, issues no put and produces no response
\* (the browser's default handling takes the request), and dispatching it
\* changes no partition.
C1_NonGetBypassesWorker ==
    [][\A i \in Tasks :
        (tasks'[i].pc # "idle" /\ tasks'[i].req.method # "GET") =>
            /\ tasks'[i].calls = << >>
            /\ tasks'[i].pc = "done"
            /\ tasks'[i].outcome = "default"
            /\ tasks'[i].fetches = 0
            /\ tasks'[i].namesAt = << >>
            /\ tasks'[i].cached = Absent
            /\ tasks'[i].net = Absent
            /\ tasks'[i].result = Absent
            /\ tasks'[i].put = NoPut
            /\ (tasks[i].pc = "idle" => caches' = caches)]_vars

C1_Witness ==
    \E i, j \in Tasks :
        /\ tasks[i].pc = "done" /\ tasks[i].req.method = "POST"
        /\ tasks[j].put.state = "stored"

\* C2: every dispatched GET request is handed to exactly one strategy, the
\* one of the class the listener gave it (API: networkFirst, IMAGE:
\* cacheFirst, OTHER: staleWhileRevalidate), and the task only ever stands at
\* steps of that strategy.
C2_ExactlyOneStrategy ==
    \A i \in Tasks :
        (Dispatched(i) /\ tasks[i].req.method = "GET") =>
            /\ tasks[i].class \in {"API", "IMAGE", "OTHER"}
            /\ Len(tasks[i].calls) = 1
            /\ tasks[i].class = "API" => tasks[i].calls[1] = "networkFirst"
            /\ tasks[i].class = "IMAGE" => tasks[i].calls[1] = "cacheFirst"
            /\ tasks[i].class = "OTHER" => tasks[i].calls[1] = "staleWhileRevalidate"
            /\ tasks[i].pc \in StepsOf(tasks[i].calls[1])

C2_Witness ==
    \E i, j \in Tasks :
        /\ Ran(i, "networkFirst") /\ tasks[i].req.destination = "image"
        /\ Ran(j, "staleWhileRevalidate") /\ tasks[j].pc = "done"

\* C3: a GET request is classified API exactly when the path of its URL
\* contains "/api/"; otherwise IMAGE when its destination is an image and
\* OTHER when it is not.
C3_ClassifiedByPath ==
    \A i \in Tasks :
        (Dispatched(i) /\ tasks[i].req.method = "GET") =>
            tasks[i].class =
                IF Includes(UrlPath(tasks[i].req.url), API_MARKER) THEN "API"
                ELSE IF tasks[i].req.destination = "image" THEN "IMAGE"
                ELSE "OTHER"

C5_MissThenFetchedIsReturnedAndStored ==
    [][\A i \in Tasks :
        ( /\ tasks'[i].calls = << "cacheFirst" >>
          /\ tasks'[i].namesAt # << >> /\ tasks'[i].cached = Absent
          /\ tasks'[i].net # Absent /\ tasks'[i].pc = "done" ) =>
            /\ tasks'[i].outcome = "fulfilled"
            /\ tasks'[i].result = tasks'[i].net
            /\ PutIssued(tasks'[i])
            /\ (tasks[i].put.state = "pending" /\ tasks'[i].put.state = "stored") =>
                   CacheMatch(caches', DYNAMIC_CACHE, tasks'[i].req.url)
                       = tasks'[i].net]_vars

\* C6: when cacheFirst's lookup finds nothing and its fetch fails, an image
\* request is answered with the placeholder, which is the entry the install
\* stored in the static partition for PLACEHOLDER, a manifest URL, so the
\* answer is a response and not undefined; a request that is not an image
\* is rejected with the network failure.
C6_FailedImageGetsStaticPlaceholder ==
    \A i \in Tasks :
        ( /\ Ran(i, "cacheFirst") /\ LookedUp(i) /\ tasks[i].cached = Absent
          /\ tasks[i].net = Absent /\ tasks[i].pc = "done" ) =>
            IF tasks[i].req.destination = "image"
            THEN /\ tasks[i].outcome = "fulfilled"
                 /\ tasks[i].result # Absent
                 /\ Resolve(PLACEHOLDER) \in ManifestUrls
                 /\ tasks[i].result
                        = CacheMatch(caches, STATIC_CACHE, Resolve(PLACEHOLDER))
            ELSE tasks[i].outcome = "rejected"

(***************************************************************************)
(* Properties of networkFirst.                                             *)
(***************************************************************************)
\* C7: when the fetch of an API request succeeds, networkFirst returns the
\* fresh network response, never a cached or synthetic one, and it has
\* issued the put of that response into the dynamic partition under the
\* request's URL, which holds exactly that response once the put commits.
C7_FetchedIsReturnedAndStored ==
    [][\A i \in Tasks :
        ( /\ tasks'[i].calls = << "networkFirst" >> /\ tasks'[i].class = "API"
          /\ tasks'[i].net # Absent /\ tasks'[i].pc = "done" ) =>
            /\ tasks'[i].outcome = "fulfilled"
            /\ tasks'[i].result = tasks'[i].net
            /\ PutIssued(tasks'[i])
            /\ (tasks[i].put.state = "pending" /\ tasks'[i].put.state = "stored") =>
                   CacheMatch(caches', DYNAMIC_CACHE, tasks'[i].req.url)
                       = tasks'[i].net]_vars

\* The step by which networkFirst answers after its fetch failed.
NfFallbackStep(i) ==
    /\ tasks[i].pc = "nf_match" /\ tasks'[i].pc = "done"
    /\ tasks[i].calls = << "networkFirst" >>
    /\ tasks[i].net = Absent

C9_FallbackIsOffline503 ==
    \A i \in Tasks :
        ( /\ Ran(i, "networkFirst") /\ tasks[i].pc = "done"
          /\ tasks[i].net = Absent ) =>
            /\ tasks[i].outcome = "fulfilled"
            /\ ( /\ tasks[i].dynAt = Absent /\ tasks[i].staAt = Absent
                 /\ tasks[i].orphanAt = Absent ) =>
                   /\ tasks[i].result = Offline
                   /\ tasks[i].result.status = 503

C9_Witness ==
    \E i \in Tasks :
        /\ Ran(i, "networkFirst") /\ tasks[i].pc = "done"
        /\ tasks[i].net = Absent /\ tasks[i].fetches = 1
        /\ tasks[i].dynAt = Absent /\ tasks[i].orphanAt = Absent
        /\ tasks[i].result.status = 503

(***************************************************************************)
(* Properties of staleWhileRevalidate.                                     *)
(***************************************************************************)
\* C10: when the dynamic partition holds an entry for the URL of an OTHER
\* request at staleWhileRevalidate's lookup, the call returns that entry in
\* the step that starts its one fetch, while that fetch is still in flight,
\* and the returned response stays that entry whatever the fetch does.
C10_CachedReturnedBeforeFetchSettles ==
    [][\A i \in Tasks :
        ( /\ tasks'[i].calls = << "staleWhileRevalidate" >>
          /\ tasks'[i].class = "OTHER"
          /\ tasks'[i].namesAt # << >> /\ tasks'[i].dynAt # Absent ) =>
            /\ tasks'[i].outcome = "fulfilled"
            /\ tasks'[i].result = tasks'[i].dynAt
            /\ tasks'[i].fetches = 1
            /\ tasks[i].pc = "swr_match" =>
                   /\ tasks'[i].pc = "swr_fetch"
                   /\ tasks'[i].net = Absent]_vars

C10_Witness ==
    \E i \in Tasks :
        /\ Ran(i, "staleWhileRevalidate") /\ tasks[i].pc = "swr_fetch"
        /\ tasks[i].dynAt # Absent
        /\ tasks[i].outcome = "fulfilled" /\ tasks[i].result = tasks[i].dynAt

\* C11 as stated: when the dynamic partition holds no entry for the URL of
\* an OTHER request at staleWhileRevalidate's lookup, the call returns the
\* network response, and once the call is over the dynamic partition holds
\* an entry for the URL.
C11_MissReturnsNetworkAndHoldsEntry ==
    \A i \in Tasks :
        ( /\ Ran(i, "staleWhileRevalidate") /\ tasks[i].class = "OTHER"
          /\ LookedUp(i) /\ tasks[i].dynAt = Absent /\ tasks[i].pc = "done" ) =>
            /\ tasks[i].outcome = "fulfilled"
            /\ tasks[i].net # Absent
            /\ tasks[i].result = tasks[i].net
            /\ CacheMatch(caches, DYNAMIC_CACHE, tasks[i].req.url) # Absent

\* C11 amended: in that case the caller waits for the fetch.  When the fetch
\* succeeds the call returns the network response and has issued the put of
\* it into the dynamic partition under the URL, and the partition holds
\* exactly that response in the step the put commits; when the fetch fails
\* the call is rejected and no put is issued.
C11_MissFetchedIsReturnedAndPut ==
    [][\A i \in Tasks :
        ( /\ tasks'[i].calls = << "staleWhileRevalidate" >>
          /\ tasks'[i].class = "OTHER"
          /\ tasks'[i].namesAt # << >> /\ tasks'[i].dynAt = Absent ) =>
            /\ tasks'[i].pc = "swr_fetch" =>
                   /\ tasks'[i].outcome = "pending"
                   /\ tasks'[i].fetches = 1
            /\ (tasks'[i].pc = "done" /\ tasks'[i].net # Absent) =>
                   /\ tasks'[i].outcome = "fulfilled"
                   /\ tasks'[i].result = tasks'[i].net
                   /\ tasks'[i].net = NetResponse(tasks'[i].req.url, i)
                   /\ PutIssued(tasks'[i])
                   /\ ( /\ tasks[i].put.state = "pending"
                        /\ tasks'[i].put.state = "stored" ) =>
                          CacheMatch(caches', DYNAMIC_CACHE, tasks'[i].req.url)
                              = tasks'[i].net
            /\ (tasks'[i].pc = "done" /\ tasks'[i].net = Absent) =>
                   /\ tasks'[i].outcome = "rejected"
                   /\ tasks'[i].put = NoPut]_vars

\* A miss whose fetch succeeded: the network response was returned and its
\* put has committed.
C11_Witness ==
    \E i \in Tasks :
        /\ Ran(i, "staleWhileRevalidate") /\ tasks[i].class = "OTHER"
        /\ LookedUp(i) /\ tasks[i].dynAt = Absent
        /\ tasks[i].outcome = "fulfilled" /\ tasks[i].result = tasks[i].net
        /\ tasks[i].put.state = "stored"
        /\ CacheMatch(caches, DYNAMIC_CACHE, tasks[i].req.url) = tasks[i].net

\* C12 as stated: every staleWhileRevalidate call starts exactly one fetch,
\* and by the time it is over it has issued the one put that refreshes the
\* dynamic entry, whichever branch answered.
C12_OneFetchAndOneRefresh ==
    \A i \in Tasks :
        (Ran(i, "staleWhileRevalidate") /\ tasks[i].pc = "done") =>
            /\ tasks[i].fetches = 1
            /\ tasks[i].put.state \in {"pending", "stored"}

\* The step by which the put of task i commits.
CommitStep(i) ==
    tasks[i].put.state = "pending" /\ tasks'[i].put.state = "stored"

\* C12 amended: a staleWhileRevalidate call starts one fetch at its lookup,
\* whether or not the lookup found an entry, and none before (a call whose
\* caches.open fails starts none and is rejected).  It issues a put, of its
\* own network response under its URL, exactly when that fetch succeeds, on
\* either branch; the dynamic entry becomes that response in the step the
\* put commits, after which the call does nothing more, and no other step of
\* the call changes the entry.
C12_OneFetchAtMostOneRefresh ==
    [][\A i \in Tasks :
        tasks'[i].calls = << "staleWhileRevalidate" >> =>
            /\ tasks'[i].fetches = IF tasks'[i].namesAt # << >> THEN 1 ELSE 0
            /\ (tasks'[i].pc = "done" /\ tasks'[i].namesAt = << >>) =>
                   tasks'[i].outcome = "rejected" /\ tasks'[i].put = NoPut
            /\ (tasks'[i].pc = "done" /\ tasks'[i].namesAt # << >>) =>
                   IF tasks'[i].net # Absent
                   THEN /\ tasks'[i].net = NetResponse(tasks'[i].req.url, i)
                        /\ PutIssued(tasks'[i])
                   ELSE tasks'[i].put = NoPut
            /\ tasks'[i].pc # "done" => tasks'[i].put = NoPut
            /\ tasks[i].put.state \in {"stored", "failed"} =>
                   tasks'[i] = tasks[i]
            /\ CommitStep(i) =>
                   CacheMatch(caches', DYNAMIC_CACHE, tasks'[i].req.url)
                       = tasks'[i].net
            /\ (tasks'[i] # tasks[i] /\ ~CommitStep(i)) =>
                   \A r \in Requests :
                       CacheMatch(caches', DYNAMIC_CACHE, r.url)
                           = CacheMatch(caches, DYNAMIC_CACHE, r.url)]_vars

\* Both branches refreshed the entry: one call missed, one call answered
\* from the cache, and the put of each has committed.
C12_Witness ==
    \E i, j \in Tasks :
        /\ Ran(i, "staleWhileRevalidate") /\ Ran(j, "staleWhileRevalidate")
        /\ LookedUp(i) /\ tasks[i].dynAt = Absent
        /\ LookedUp(j) /\ tasks[j].dynAt # Absent
        /\ tasks[j].result = tasks[j].dynAt
        /\ tasks[i].fetches = 1 /\ tasks[j].fetches = 1
        /\ tasks[i].put.state = "stored" /\ tasks[j].put.state = "stored"

(***************************************************************************)
(* Properties of the lifecycle.                                            *)
(***************************************************************************)
\* Every asset of the manifest is in the static partition, as the network
\* returned it to the install.
StaticPopulated(cs) ==
    \A u \in ManifestUrls : CacheMatch(cs, STATIC_CACHE, u) = NetResponse(u, 0)

\* C13: when addAll rejects because an asset cannot be fetched, the install
\* fails as a whole: the step leaves every partition as it was (no asset of
\* the manifest is stored), skipWaiting() has not been called, the worker
\* becomes redundant and claims no client; a redundant worker is never
\* activated (it can only be registered anew), and a worker is activated
\* only when its addAll succeeded and the static partition is populated.
C13_FailedInstallCommitsNothing ==
    [][/\ (work.addAll = "pending" /\ work'.addAll = "failed") =>
              /\ caches' = caches
              /\ \A u \in ManifestUrls :
                     CacheMatch(caches', STATIC_CACHE, u).origin # "network"
              /\ worker' = "redundant"
       /\ work'.addAll = "failed" =>
              /\ worker' = "redundant"
              /\ ~skipWaiting'
              /\ ~claimed'
       /\ worker = "redundant" => worker' \in {"redundant", "parsed"}
       /\ worker' \in {"installed", "activating", "activated"} =>
              /\ work'.addAll = "done"
              /\ skipWaiting'
              /\ StaticPopulated(caches')]_vars

\* An install has failed: the static partition exists and holds no asset
\* the network returned.
C13_Witness ==
    /\ work.addAll = "failed"
    /\ worker = "redundant"
    /\ HasCache(caches, STATIC_CACHE)
    /\ \A u \in ManifestUrls : CacheMatch(caches, STATIC_CACHE, u).origin # "network"
    /\ ~skipWaiting

\* The partitions of the running version, as they stand in cs.
Current(cs) ==
    SelectSeq(cs, LAMBDA c : c.name = STATIC_CACHE \/ c.name = DYNAMIC_CACHE)

\* A step of the activate listener or of one of its deletions.
ActivateStep == work' # work /\ work'.addAll = work.addAll

\* The step by which an activate whose deletions all succeeded settles.
CleanSettle ==
    work.chain = "running" /\ work'.chain = "settled" /\ work.failed = {}

\* C14: when an activate's deletions have all succeeded, whatever partitions
\* existed before, every partition that remains is the static or the dynamic
\* one of the running version and every partition the listener found under
\* another name is gone; no step of the activate deletes or changes the
\* static or the dynamic partition; and clients.claim() is called only when
\* every deletion has completed.
C14_OnlyCurrentPartitionsRemain ==
    [][/\ CleanSettle =>
              /\ work.todo = {}
              /\ Orphans(caches') = << >>
              /\ \A name \in work.issued : ~HasCache(caches', name)
              /\ caches' = Current(caches')
              /\ claimed'
       /\ ActivateStep =>
              /\ Current(caches') = Current(caches)
              /\ work'.issued \cap {STATIC_CACHE, DYNAMIC_CACHE} = {}
              /\ work'.issued = work.issued =>
                     \A name \in KnownNames \ work.issued :
                         HasCache(caches', name) = HasCache(caches, name)
       /\ (~claimed /\ claimed') =>
              /\ work.todo = {} /\ work.failed = {}
              /\ Orphans(caches) = << >>]_vars

\* An activate has deleted a stale partition, kept the dynamic partition an
\* earlier run of this version filled, and claimed the clients.
C14_Witness ==
    /\ work.chain = "settled" /\ work.runs = 1
    /\ work.issued # {} /\ work.failed = {}
    /\ claimed
    /\ Orphans(caches) = << >>
    /\ CacheMatch(caches, DYNAMIC_CACHE, Resolve("/api/data"))
           = OldResponse(Resolve("/api/data"))
    /\ StaticPopulated(caches)

\* The step by which the activate listener starts its second run.
SecondRun == work.runs = 1 /\ work'.runs = 2

\* C15 as stated: the second of two activate runs in succession issues no
\* deletion, and no step of it changes a partition.
C15_SecondActivateDeletesNothing ==
    [][/\ SecondRun => work'.issued = {}
       /\ (ActivateStep /\ work'.runs = 2) => caches' = caches]_vars

\* C15 amended: the second run issues a deletion for exactly the partitions
\* whose deletion failed in the first run.  When every deletion of the first
\* run succeeded it issues none, and every step of it leaves the partitions
\* and their contents as the first run left them.
C15_SecondActivateRetriesFailedOnly ==
    [][/\ SecondRun =>
              /\ work'.issued = work.failed
              /\ work.failed = {} => Orphans(caches) = << >>
       /\ (ActivateStep /\ work'.runs = 2 /\ work'.issued = {}) =>
              /\ caches' = caches
              /\ work'.deleted = work.deleted
       /\ (ActivateStep /\ work'.runs = 2) =>
              Current(caches') = Current(caches)]_vars

\* A first run deleted a partition, every deletion of it having succeeded,
\* and the second run has settled without issuing one.
C15_Witness ==
    /\ work.runs = 2 /\ work.chain = "settled"
    /\ work.deleted # {} /\ work.issued = {}
    /\ claimed
    /\ caches = Current(caches)
    /\ StaticPopulated(caches)

\* C16: a fetch event is dispatched only to a worker that is activated, and
\* then the work of both lifecycle listeners is over: the install's addAll
\* has succeeded and the static partition is populated, the activate
\* listener's promise has settled, and no deletion it issued is pending.
C16_NoFetchWhileLifecycleWorkPending ==
    [][\A i \in Tasks :
        (tasks[i].pc = "idle" /\ tasks'[i].pc # "idle") =>
            /\ worker = "activated"
            /\ work.addAll = "done"
            /\ StaticPopulated(caches)
            /\ work.chain = "settled"
            /\ work.todo = {}]_vars

\* C18: when a deletion fails during activate, the other deletions the
\* listener issued are still carried out, the activation completes, and
\* clients.claim() is still called.
C18_FailedDeletionStillClaims ==
    (work.runs = 1 /\ work.chain = "settled" /\ work.todo = {}) =>
        /\ worker = "activated"
        /\ work.issued \ work.failed \subseteq work.deleted
        /\ \A name \in work.issued \ work.failed : ~HasCache(caches, name)
        /\ claimed

(***************************************************************************)
(* Properties of the cache writes.                                         *)
(***************************************************************************)
\* C17: a strategy whose fetch succeeded returns the response it fetched,
\* whatever becomes of opening the dynamic partition and of the put: the
\* call is not rejected and answers with no fallback (staleWhileRevalidate
\* being considered when its lookup found nothing, since otherwise it
\* answers from the cache).
C17_StoreFailureKeepsFetchedResponse ==
    \A i \in Tasks :
        ( /\ Dispatched(i) /\ tasks[i].pc = "done" /\ tasks[i].net # Absent
          /\ (Ran(i, "staleWhileRevalidate") => tasks[i].dynAt = Absent) ) =>
            /\ tasks[i].outcome = "fulfilled"
            /\ tasks[i].result = tasks[i].net

(***************************************************************************)
(* Properties of the background sync.                                      *)
(***************************************************************************)
\* C19: when the sync listener is triggered with SYNC_TAG and no submission
\* is stored, syncRSVP ends at once: it makes no POST, logs no failure, is
\* not rejected, and leaves the store and what the endpoint received as
\* they were.
C19_NothingStoredNothingSent ==
    [][/\ (sync.pc = "get" /\ sync'.pc # "get" /\ pending = NoRsvp) =>
              /\ sync'.pc = "done"
              /\ sync'.outcome = "fulfilled"
              /\ sync'.posts = 0
              /\ sync'.body = ""
              /\ ~sync'.logged
              /\ ~sync'.cleared
              /\ pending' = pending
              /\ received' = received
       /\ (sync'.tag = SYNC_TAG /\ sync'.before = NoRsvp) =>
              /\ sync'.posts = 0
              /\ sync'.outcome \in {"pending", "fulfilled"}
              /\ pending' = NoRsvp]_vars

\* A trigger that found nothing stored is over, after an earlier trigger
\* delivered the submission.
C19_Witness ==
    /\ sync.tag = SYNC_TAG /\ sync.pc = "done"
    /\ sync.before = NoRsvp
    /\ sync.posts = 0 /\ sync.outcome = "fulfilled"
    /\ pending = NoRsvp
    /\ received # << >>

\* C20: when a submission is stored, a trigger with SYNC_TAG makes exactly
\* one POST; the submission is deleted exactly when the endpoint accepted
\* it, and after a delivery that did not succeed it is stored as before.
C20_DeletedIffDelivered ==
    (sync.tag = SYNC_TAG /\ sync.pc = "done" /\ sync.before # NoRsvp) =>
        /\ sync.posts = 1
        /\ sync.body = JsonStringify(sync.before)
        /\ sync.cleared <=> sync.reply = "ok"
        /\ pending = IF sync.reply = "ok" THEN NoRsvp ELSE sync.before

\* C21: a submission made while the network is down is stored as the
\* pending submission, for a later trigger with SYNC_TAG to replay; and at
\* most one submission is stored at a time.
C21_OfflineSubmissionIsStored ==
    /\ (page.pc = "idle" /\ page.reply = "failed") => pending = page.data
    /\ pending \in Rsvps \cup {NoRsvp}

(***************************************************************************)
(* Properties of concurrent requests.                                      *)
(***************************************************************************)
\* The URLs the page requests.
RequestUrls == { r.url : r \in Requests }

\* C22: the dynamic partition is last-write-wins.  The entry of a URL
\* changes only in the step in which the put of some task for that URL
\* commits, and that step makes the entry the response of that put,
\* whatever the entry was; so after two requests for one URL the entry is
\* the response of the put that committed last.
C22_LastWriteWins ==
    [][/\ \A i \in Tasks :
              CommitStep(i) =>
                  CacheMatch(caches', DYNAMIC_CACHE, tasks[i].put.key)
                      = tasks[i].put.resp
       /\ \A u \in RequestUrls :
              CacheMatch(caches', DYNAMIC_CACHE, u)
                      # CacheMatch(caches, DYNAMIC_CACHE, u) =>
                  \E i \in Tasks :
                      /\ CommitStep(i)
                      /\ tasks[i].put.key = u
                      /\ tasks[i].put.name = DYNAMIC_CACHE]_vars

\* Two networkFirst calls for one URL have both stored their response, and
\* the entry is the response of the fetch that started first: the put of
\* the second call committed before the put of the first.
C22_Witness ==
    /\ Ran(1, "networkFirst") /\ Ran(2, "networkFirst")
    /\ tasks[1].req.url = tasks[2].req.url
    /\ tasks[1].put.state = "stored" /\ tasks[2].put.state = "stored"
    /\ tasks[1].net # tasks[2].net
    /\ CacheMatch(caches, DYNAMIC_CACHE, tasks[1].req.url) = tasks[1].net

\* The whole of a response for u: neither cut short nor made up.
Whole(r, u) ==
    /\ r.status = 200
    /\ r.url = u
    /\ r.origin \in {"network", "old"}

\* The host terminated task i in this step.
AbortStep(i) ==
    /\ tasks'[i] # tasks[i]
    /\ \/ tasks'[i].outcome = "aborted" /\ tasks[i].outcome # "aborted"
       \/ tasks'[i].put.state = "aborted" /\ tasks[i].put.state # "aborted"

C24_BackgroundFailureContained ==
    \A i \in Tasks :
        (Ran(i, "staleWhileRevalidate") /\ LookedUp(i)
                                       /\ tasks[i].cached # Absent) =>
            /\ tasks[i].outcome = "fulfilled"
            /\ tasks[i].result = tasks[i].cached
            /\ i \notin unhandled

\* The click listener ran for notification n in this step.
ClickStep(n) ==
    /\ n \in DOMAIN notifications
    /\ notifications[n].clicked = "unclicked"
    /\ notifications'[n].clicked # "unclicked"

\* C25: a click on a notification closes it, whatever the action; it opens
\* one window, at the site root, when the action is 'view', and otherwise
\* ('dismiss', or no action) changes nothing else; and no window is opened
\* but by a click whose action is 'view'.
C25_ClickClosesAndOpensOnView ==
    [][/\ \A n \in 1..MaxPushes :
              ClickStep(n) =>
                  /\ ~notifications'[n].open
                  /\ \A m \in DOMAIN notifications :
                         m # n => notifications'[m] = notifications[m]
                  /\ windows' = IF notifications'[n].clicked = "view"
                                THEN Append(windows, Resolve("/"))
                                ELSE windows
                  /\ UNCHANGED << vars_worker, pending, sync, received,
                                  fired, page >>
       /\ windows' # windows =>
              \E n \in 1..MaxPushes :
                  ClickStep(n) /\ notifications'[n].clicked = "view"]_vars

\* Three notifications were clicked, on 'view', on 'dismiss' and on the
\* body: all three are closed and one window is open, at the site root.
C25_Witness ==
    /\ Len(notifications) = 3
    /\ { notifications[n].clicked : n \in DOMAIN notifications }
           = {"view", "dismiss", ""}
    /\ \A n \in DOMAIN notifications : ~notifications[n].open
    /\ windows = << Resolve("/") >>

\* What the static partition holds; nothing when it does not exist.
StaticStore(cs) ==
    IF HasCache(cs, STATIC_CACHE)
    THEN LET k == CHOOSE j \in DOMAIN cs : cs[j].name = STATIC_CACHE
         IN  cs[k].store
    ELSE EmptyStore

\* C26: only the install writes the static partition.  Its contents change
\* in no step but the one in which the install's addAll succeeds; from then
\* on, through activate and fetch events, it holds exactly the assets of
\* the manifest as the install stored them; and every put a strategy
\* issues is for the dynamic partition.
C26_StaticWrittenOnlyByInstall ==
    [][/\ StaticStore(caches') # StaticStore(caches) =>
              work.addAll = "pending" /\ work'.addAll = "done"
       /\ work'.addAll = "done" =>
              StaticStore(caches') = [u \in ManifestUrls |-> NetResponse(u, 0)]
       /\ \A i \in Tasks :
              tasks'[i].put.state # "none" =>
                  tasks'[i].put.name = DYNAMIC_CACHE]_vars

\* After install and activate, a staleWhileRevalidate call for a pre-cached
\* asset has stored its network response: the dynamic partition holds it
\* and the static partition still holds what the install stored.
C26_Witness ==
    /\ worker = "activated"
    /\ Ran(1, "staleWhileRevalidate")
    /\ tasks[1].req.url \in ManifestUrls
    /\ tasks[1].put.state = "stored"
    /\ CacheMatch(caches, DYNAMIC_CACHE, tasks[1].req.url) = tasks[1].net
    /\ tasks[1].net # NetResponse(tasks[1].req.url, 0)
    /\ StaticStore(caches) = [u \in ManifestUrls |-> NetResponse(u, 0)]

\* C27: every entry of the dynamic partition is the response the network
\* returned to some task for a request with the URL of the entry; every put
\* a strategy issues stores the response of its own fetch under the URL of
\* its own request; so neither the synthetic 503 nor the placeholder that
\* answers a failed image request is stored in any partition, for any URL.
C27_DynamicHoldsOnlyOwnNetworkResponses ==
    /\ \A k \in DOMAIN caches : \A u \in DOMAIN caches[k].store :
           /\ caches[k].store[u] # Offline
           /\ caches[k].store[u].status = 200
           /\ caches[k].store[u].url = u
           /\ caches[k].name = DYNAMIC_CACHE =>
                  \E i \in Tasks :
                      /\ tasks[i].req.url = u
                      /\ tasks[i].net = caches[k].store[u]
                      /\ tasks[i].net = NetResponse(u, i)
    /\ \A i \in Tasks :
           tasks[i].put.state # "none" =>
               /\ tasks[i].put.key = tasks[i].req.url
               /\ tasks[i].put.resp = NetResponse(tasks[i].req.url, i)

\* A request for the placeholder image itself stored the network response
\* under its own URL; a later image request whose fetch failed was answered
\* with that entry, and nothing is stored under the URL of that request.
C27_Witness ==
    \E i, j \in Tasks :
        /\ tasks[i].req.url = Resolve(PLACEHOLDER)
        /\ tasks[i].put.state = "stored"
        /\ Ran(j, "cacheFirst")
        /\ tasks[j].req.url # Resolve(PLACEHOLDER)
        /\ tasks[j].outcome = "fulfilled"
        /\ tasks[j].result = tasks[i].net
        /\ tasks[j].put.state = "none"
        /\ \A k \in DOMAIN caches :
               tasks[j].req.url \notin DOMAIN caches[k].store

\* C28: staleWhileRevalidate looks its request up in the dynamic partition
\* alone.  What it takes as cached is what that partition held at the
\* lookup; when that is nothing, the call stays pending on its fetch even
\* though the static partition held the asset, and it ends either with the
\* response of that fetch or, the fetch having failed, rejected.
C28_SwrConsultsOnlyDynamic ==
    \A i \in Tasks :
        (Ran(i, "staleWhileRevalidate") /\ LookedUp(i)) =>
            /\ tasks[i].cached = tasks[i].dynAt
            /\ tasks[i].dynAt = Absent =>
                   /\ tasks[i].pc = "swr_fetch" => tasks[i].outcome = "pending"
                   /\ tasks[i].pc = "done" =>
                          \/ /\ tasks[i].outcome = "fulfilled"
                             /\ tasks[i].result = NetResponse(tasks[i].req.url, i)
                          \/ /\ tasks[i].outcome = "rejected"
                             /\ tasks[i].net = Absent

\* A staleWhileRevalidate call for an asset that the install pre-cached and
\* the dynamic partition did not hold was rejected, its fetch having failed.
C28_Witness ==
    \E i \in Tasks :
        /\ Ran(i, "staleWhileRevalidate")
        /\ tasks[i].req.url \in ManifestUrls
        /\ tasks[i].staAt = NetResponse(tasks[i].req.url, 0)
        /\ tasks[i].dynAt = Absent
        /\ tasks[i].pc = "done"
        /\ tasks[i].outcome = "rejected"

\* C29: when a networkFirst call has returned the response of the network
\* to its caller, a networkFirst call for the same URL that is dispatched
\* afterwards and whose fetch fails is answered from the cache, not with
\* the synthetic 503, however the put of the first call is interleaved with
\* the second call.
C29_LaterCallServedFromCache ==
    \A i, j \in Tasks :
        ( /\ i < j
          /\ Ran(i, "networkFirst") /\ Ran(j, "networkFirst")
          /\ tasks[i].req.url = tasks[j].req.url
          /\ tasks[i].outcome = "fulfilled"
          /\ tasks[i].result = NetResponse(tasks[i].req.url, i)
          /\ tasks[j].pc = "done"
          /\ tasks[j].net = Absent ) =>
            /\ tasks[j].result # Offline
            /\ tasks[j].result.url = tasks[j].req.url

(***************************************************************************)
(* Properties of the analytics.                                            *)
(***************************************************************************)
\* C30: analytics data (a metric, an event or an error report) is sent only
\* in a step that starts with the stored analytics consent being 'true',
\* and a PerformanceMonitor is created only in a step that leaves it
\* 'true', so never by a rejection.
C30_NothingSentWithoutConsent ==
    [][/\ sent' # sent => hasAnalyticsConsent(localStorage)
       /\ \A p \in Pages :
              pages'[p].monitors > pages[p].monitors =>
                  hasAnalyticsConsent(localStorage')]_vars

====
